---- MODULE Spec2Model ----
(***************************************************************************)
(* Model of src/src/ai/negamax.cc: the heuristic negamax search            *)
(* (RenjuAINegamax::heuristicNegamax, both overloads), the candidate       *)
(* generator (searchMovesOrdered) and the exhaustive baseline (negamax).   *)
(*                                                                         *)
(* The recursion is modelled with an explicit call stack.  `gs` is the     *)
(* board the search mutates in place, `stack` the frames of the nodes      *)
(* whose candidate loop is running, `call` the arguments of a call that    *)
(* has been issued and not yet entered, `ret` the value of the last        *)
(* return.  A caller performs the 8-argument heuristicNegamax twice on the *)
(* same position (first without, then with alpha-beta pruning, and with    *)
(* two time limits), or performs negamax once.                             *)
(***************************************************************************)
EXTENDS Integers, Sequences, FiniteSets

VARIABLES
    inp,            \* the caller's arguments (never change)
    run,            \* 1 or 2: which of the caller's two calls is running
    res1,           \* what the first call produced (<<>> until it is over)
    dpc,            \* position in the 8-argument heuristicNegamax / caller
    d,              \* iterative deepening: depth of the current iteration
    c_elapsed,      \* iterative deepening: elapsed ms measured at line 81
    actual_depth,   \* *actual_depth : <<>> (never written) or <<depth>>
    move,           \* (*move_r, *move_c) : <<>> (never written) or <<r, c>>
    searches,       \* depths of the top-level searches run by this call
    rootScore,      \* value returned by the last top-level search
    initial_depth,  \* initial_depth argument (constant over one recursion)
    gs,             \* the board the search works on (_gs, or gs of negamax)
    pc,             \* "idle", "call", "loop" or "ret"
    call,           \* arguments of the pending call
    ret,            \* value returned by the last call
    stack,          \* frames of the active nodes, the root first
    g_node_count,   \* global node counter
    live,           \* number of std::vector objects allocated and not deleted
    paths           \* exit paths taken by the nodes of the current search

vars == <<inp, run, res1, dpc, d, c_elapsed, actual_depth, move, searches,
          rootScore, initial_depth, gs, pc, call, ret, stack, g_node_count,
          live, paths>>

(***************************************************************************)
(* Bounds of the model.                                                    *)
(***************************************************************************)
g_board_size == 4
MaxEmpty == 5
MaxDepth == 5
MaxSeed == 1
MaxAutoEmpty == 2
MaxSparseDepth == 2
MaxNmDepth == 2
MaxTimeK == 3
MaxSched == 3

(***************************************************************************)
(* Program constants.                                                      *)
(***************************************************************************)
kSearchBreadth == 6
kTopLayerSearchBreadth == 12
kAvgBranchingFactor == 5
kAvgMaximumDepth == 16
INT_MAX == 2147483647
INT_MIN == -INT_MAX - 1
kRenjuAiEvalWinningScore == 10000
kRenjuAiEvalThreateningScore == 300

Cells == 0 .. (g_board_size * g_board_size - 1)
Idx(r, c) == g_board_size * r + c
RowOf(i) == i \div g_board_size
ColOf(i) == i % g_board_size
Other(player) == IF player = 1 THEN 2 ELSE 1
Abs(x) == IF x < 0 THEN -x ELSE x
MinOf(a, b) == IF a < b THEN a ELSE b

(***************************************************************************)
(* Board utilities and position evaluator.  Their code is not part of      *)
(* negamax.cc; the search only consumes their results.  The evaluator is   *)
(* an arbitrary deterministic function of (board, cell, player): a table   *)
(* indexed by a hash, one function per inp.seed.                           *)
(***************************************************************************)
getCell(b, r, c) == b[Idx(r, c)]
setCell(b, r, c, v) == [b EXCEPT ![Idx(r, c)] = v]

remoteCell(b, r, c) ==
    \A i \in (r - 2) .. (r + 2), j \in (c - 2) .. (c + 2) :
        (i >= 0 /\ i < g_board_size /\ j >= 0 /\ j < g_board_size)
            => b[Idx(i, j)] = 0

RECURSIVE BoardSum(_, _)
BoardSum(b, i) ==
    IF i \notin Cells THEN 0 ELSE (i + 1) * b[i] + BoardSum(b, i + 1)

EvalTable == <<300, 300, 10000, 1, 400, 40>>

evalMove(b, r, c, player) ==
    EvalTable[((inp.seed + BoardSum(b, 0) + 3 * Idx(r, c) + 7 * player)
                  % Len(EvalTable)) + 1]

evalState(b, player) ==
    ((inp.seed + BoardSum(b, 0) + 5 * player) % 7) - 3

(***************************************************************************)
(* searchMovesOrdered (lines 221-264).  The extent is computed and clamped *)
(* as in the code; the scan is row-major, so the unsorted list is in       *)
(* ascending cell index.  std::sort orders by heuristic_val descending;    *)
(* for the list lengths that occur here it is an insertion sort, which     *)
(* keeps equal elements in scan order.                                     *)
(***************************************************************************)
Occupied(b) == {i \in Cells : b[i] # 0}

Extent(b) ==
    LET occ == Occupied(b)
        rows == {RowOf(i) : i \in occ}
        cols == {ColOf(i) : i \in occ}
        min_r0 == IF occ = {} THEN INT_MAX
                  ELSE CHOOSE x \in rows : \A y \in rows : x <= y
        min_c0 == IF occ = {} THEN INT_MAX
                  ELSE CHOOSE x \in cols : \A y \in cols : x <= y
        max_r0 == IF occ = {} THEN INT_MIN
                  ELSE CHOOSE x \in rows : \A y \in rows : x >= y
        max_c0 == IF occ = {} THEN INT_MIN
                  ELSE CHOOSE x \in cols : \A y \in cols : x >= y
    IN  [min_r |-> IF min_r0 - 2 < 0 THEN 2 ELSE min_r0,
         min_c |-> IF min_c0 - 2 < 0 THEN 2 ELSE min_c0,
         max_r |-> IF max_r0 + 2 >= g_board_size
                   THEN g_board_size - 3 ELSE max_r0,
         max_c |-> IF max_c0 + 2 >= g_board_size
                   THEN g_board_size - 3 ELSE max_c0]

\* occupied cells are not skipped
ScannedCellsMut(b) ==
    LET e == Extent(b)
    IN  {<<r, c>> \in ((e.min_r - 2) .. (e.max_r + 2))
                      \X ((e.min_c - 2) .. (e.max_c + 2)) :
            ~remoteCell(b, r, c)}

ScannedCells(b) ==
    LET e == Extent(b)
    IN  {<<r, c>> \in ((e.min_r - 2) .. (e.max_r + 2))
                      \X ((e.min_c - 2) .. (e.max_c + 2)) :
            b[Idx(r, c)] = 0 /\ ~remoteCell(b, r, c)}

NoScore == <<>>

MovesOf(b, player) ==
    {[r |-> rc[1], c |-> rc[2],
      heuristic_val |-> evalMove(b, rc[1], rc[2], player),
      actual_score |-> NoScore] : rc \in ScannedCells(b)}

\* m comes before o in the sorted list
Before(m, o) ==
    \/ m.heuristic_val > o.heuristic_val
    \/ m.heuristic_val = o.heuristic_val /\ Idx(m.r, m.c) <= Idx(o.r, o.c)

RECURSIVE SortMoves(_)
SortMoves(S) ==
    IF S = {} THEN <<>>
    ELSE LET m == CHOOSE x \in S : \A y \in S : Before(x, y)
         IN  <<m>> \o SortMoves(S \ {m})

searchMovesOrdered(b, player) == SortMoves(MovesOf(b, player))

(***************************************************************************)
(* Pieces of the 9-argument heuristicNegamax (lines 92-219).               *)
(***************************************************************************)
\* score *= kScoreDecayFactor on an int: the product with 0.95f truncated
\* towards zero, applied only to scores >= 10
Decay(s) == IF s >= 10 THEN (s * 19) \div 20 ELSE s

\* the winning-move test forgotten
ShortcutAppliesMut(mp) == Len(mp) = 1

\* line 113
ShortcutApplies(mp) ==
    Len(mp) = 1 \/ mp[1].heuristic_val >= kRenjuAiEvalWinningScore

\* line 129
Threatened(mo) == mo[1].heuristic_val >= kRenjuAiEvalThreateningScore

\* lines 128-139: the opponent's top moves, re-evaluated for the player
BlockingMoves(b, mo, player) ==
    IF Threatened(mo)
    THEN [k \in 1 .. MinOf(Len(mo), 2) |->
             [mo[k] EXCEPT !.heuristic_val =
                               evalMove(b, mo[k].r, mo[k].c, player)]]
    ELSE <<>>

\* lines 143-144; x >> 1 is floor division by two
Breadth(depth, initial) ==
    IF (depth + 1) \div 2 = initial \div 2
    THEN kTopLayerSearchBreadth ELSE kSearchBreadth

\* lines 126-149
Candidates(b, mp, mo, player, breadth) ==
    BlockingMoves(b, mo, player) \o SubSeq(mp, 1, MinOf(Len(mp), breadth))

\* line 101
InitialMaxScore == INT_MIN

\* line 187
Better(actual_score, max_score) == actual_score > max_score

\* line 157
Place(b, m, player) == setCell(b, m.r, m.c, player)

\* the stone is left on the board
RestoreMut(b, m) == b

\* line 184
Restore(b, m) == setCell(b, m.r, m.c, 0)

\* lines 160-168
ChildCall(f, m) ==
    [kind |-> "hn", player |-> Other(f.player), depth |-> f.depth - 1,
     alpha |-> -f.beta, beta |-> -f.alpha + m.heuristic_val, root |-> FALSE]

\* lines 194-197
Cutoff(enable_ab_pruning, max_score, beta) ==
    enable_ab_pruning /\ Decay(max_score) >= beta

\* the override applied at every node, not only at the root
OverrideAppliesMut(f) ==
    /\ f.block_opponent
    /\ f.max_score < 0
    /\ LET b0 == f.cand[1].actual_score[1]
           b_score == IF b0 = 0 THEN 1 ELSE b0
       IN  5 * (f.max_score - b_score) < Abs(b_score)

\* lines 202-206.  (max_score - b_score) / (float)abs(b_score) < 0.2 is
\* decided exactly as 5 * (max_score - b_score) < abs(b_score) for the
\* magnitudes a score can have
OverrideApplies(f) ==
    /\ f.depth = initial_depth
    /\ f.block_opponent
    /\ f.max_score < 0
    /\ LET b0 == f.cand[1].actual_score[1]
           b_score == IF b0 = 0 THEN 1 ELSE b0
       IN  5 * (f.max_score - b_score) < Abs(b_score)

NoCall == [kind |-> "none"]
NoMove == <<>>
Top == stack[Len(stack)]
Pop == SubSeq(stack, 1, Len(stack) - 1)
ReplaceTop(f) == [stack EXCEPT ![Len(stack)] = f]
enable_ab_pruning == inp.ab[run]
time_limit == inp.tl[run]

driverVars == <<inp, run, res1, dpc, d, c_elapsed, actual_depth, searches,
                rootScore, initial_depth>>

\* line 96
CoreLeaf ==
    /\ pc = "call" /\ call.kind = "hn"
    /\ call.depth = 0
    /\ ret' = 0
    /\ pc' = "ret"
    /\ call' = NoCall
    /\ paths' = paths \cup {"leaf"}
    /\ UNCHANGED <<driverVars, move, gs, stack, g_node_count, live>>

\* lines 99-110: the three lists are allocated and the function returns
\* without deleting them
CoreNoMoves ==
    /\ pc = "call" /\ call.kind = "hn"
    /\ call.depth # 0
    /\ Len(searchMovesOrdered(gs, call.player)) = 0
    /\ g_node_count' = g_node_count + 1
    /\ live' = live + 3
    /\ ret' = 0
    /\ pc' = "ret"
    /\ call' = NoCall
    /\ paths' = paths \cup {"zero"}
    /\ UNCHANGED <<driverVars, move, gs, stack>>

\* lines 99-124
CoreShortcut ==
    /\ pc = "call" /\ call.kind = "hn"
    /\ call.depth # 0
    /\ LET mp == searchMovesOrdered(gs, call.player)
       IN  /\ Len(mp) # 0
           /\ ShortcutApplies(mp)
           /\ move' = IF call.root THEN <<mp[1].r, mp[1].c>> ELSE move
           /\ ret' = mp[1].heuristic_val
    /\ g_node_count' = g_node_count + 1
    /\ live' = (live + 3) - 3
    /\ pc' = "ret"
    /\ call' = NoCall
    /\ paths' = paths \cup {"shortcut"}
    /\ UNCHANGED <<driverVars, gs, stack>>

\* lines 99-152: the node enters its candidate loop
CoreExpand ==
    /\ pc = "call" /\ call.kind = "hn"
    /\ call.depth # 0
    /\ LET mp == searchMovesOrdered(gs, call.player)
           mo == searchMovesOrdered(gs, Other(call.player))
       IN  /\ Len(mp) # 0
           /\ ~ShortcutApplies(mp)
           /\ stack' = Append(stack,
                  [kind |-> "hn", player |-> call.player,
                   depth |-> call.depth, alpha |-> call.alpha,
                   beta |-> call.beta, root |-> call.root,
                   block_opponent |-> Threatened(mo),
                   breadth |-> Breadth(call.depth, initial_depth),
                   cand |-> Candidates(gs, mp, mo, call.player,
                                       Breadth(call.depth, initial_depth)),
                   i |-> 1, broke |-> FALSE, max_score |-> InitialMaxScore])
    /\ g_node_count' = g_node_count + 1
    /\ live' = live + 3
    /\ pc' = "loop"
    /\ call' = NoCall
    /\ UNCHANGED <<driverVars, move, gs, ret, paths>>

\* lines 153-168: execute the move and call the child
CorePlace ==
    /\ pc = "loop" /\ Top.kind = "hn"
    /\ ~Top.broke /\ Top.i <= Len(Top.cand)
    /\ LET m == Top.cand[Top.i]
       IN  /\ gs' = Place(gs, m, Top.player)
           /\ call' = ChildCall(Top, m)
    /\ pc' = "call"
    /\ UNCHANGED <<driverVars, move, ret, stack, g_node_count, live, paths>>

\* lines 170-197: the child has returned
CoreAfterReturn ==
    /\ pc = "ret" /\ stack # <<>> /\ Top.kind = "hn"
    /\ LET f == Top
           m == f.cand[f.i]
           score == Decay(ret)
           actual == m.heuristic_val - score
           better == Better(actual, f.max_score)
           max_score == IF better THEN actual ELSE f.max_score
           alpha == IF max_score > f.alpha THEN max_score ELSE f.alpha
           broke == Cutoff(enable_ab_pruning, max_score, f.beta)
       IN  /\ gs' = Restore(gs, m)
           /\ move' = IF better /\ f.root THEN <<m.r, m.c>> ELSE move
           /\ stack' = ReplaceTop(
                  [f EXCEPT !.cand[f.i].actual_score = <<actual>>,
                            !.max_score = max_score,
                            !.alpha = alpha,
                            !.broke = broke,
                            !.i = IF broke THEN f.i ELSE f.i + 1])
    /\ pc' = "loop"
    /\ UNCHANGED <<driverVars, call, ret, g_node_count, live, paths>>

\* lines 200-218: the loop is over
CoreFinish ==
    /\ pc = "loop" /\ Top.kind = "hn"
    /\ Top.broke \/ Top.i > Len(Top.cand)
    /\ LET f == Top
           over == OverrideApplies(f)
       IN  /\ move' = IF over /\ f.root
                      THEN <<f.cand[1].r, f.cand[1].c>> ELSE move
           /\ ret' = IF over THEN f.cand[1].actual_score[1] ELSE f.max_score
           /\ paths' = paths \cup {IF f.broke THEN "break" ELSE "end"}
                             \cup (IF over THEN {"override"} ELSE {})
    /\ live' = live - 3
    /\ stack' = Pop
    /\ pc' = "ret"
    /\ UNCHANGED <<driverVars, call, gs, g_node_count>>

(***************************************************************************)
(* negamax (lines 266-304).                                                *)
(***************************************************************************)
\* lines 274-280: the cells the loop still has to try, from index pos on
NmCells(b, pos) ==
    {i \in Cells : i >= pos /\ getCell(b, RowOf(i), ColOf(i)) = 0
                            /\ ~remoteCell(b, RowOf(i), ColOf(i))}

\* line 286: -negamax(...); negating INT_MIN overflows a signed int, and the
\* outcome is whatever the build produces
Negated(x) == IF x = INT_MIN THEN {INT_MIN, INT_MAX} ELSE {-x}

\* line 271
NmLeaf ==
    /\ pc = "call" /\ call.kind = "nm"
    /\ call.depth = 0
    /\ ret' = evalState(gs, call.player)
    /\ pc' = "ret"
    /\ call' = NoCall
    /\ paths' = paths \cup {"leaf"}
    /\ UNCHANGED <<driverVars, move, gs, stack, g_node_count, live>>

\* lines 268-275
NmExpand ==
    /\ pc = "call" /\ call.kind = "nm"
    /\ call.depth # 0
    /\ stack' = Append(stack,
           [kind |-> "nm", player |-> call.player, depth |-> call.depth,
            root |-> call.root, pos |-> 0, cur |-> 0,
            max_score |-> INT_MIN])
    /\ pc' = "loop"
    /\ call' = NoCall
    /\ UNCHANGED <<driverVars, move, gs, ret, g_node_count, live, paths>>

\* lines 276-290
NmPlace ==
    /\ pc = "loop" /\ Top.kind = "nm"
    /\ NmCells(gs, Top.pos) # {}
    /\ LET S == NmCells(gs, Top.pos)
           i == CHOOSE x \in S : \A y \in S : x <= y
       IN  /\ gs' = setCell(gs, RowOf(i), ColOf(i), Top.player)
           /\ stack' = ReplaceTop([Top EXCEPT !.cur = i])
    /\ call' = [kind |-> "nm", player |-> Other(Top.player),
                depth |-> Top.depth - 1, root |-> FALSE]
    /\ pc' = "call"
    /\ UNCHANGED <<driverVars, move, ret, g_node_count, live, paths>>

\* lines 286-300
NmAfterReturn ==
    /\ pc = "ret" /\ stack # <<>> /\ Top.kind = "nm"
    /\ \E s \in Negated(ret) :
         LET f == Top
             better == s > f.max_score
         IN  /\ gs' = setCell(gs, RowOf(f.cur), ColOf(f.cur), 0)
             /\ move' = IF better /\ f.root
                        THEN <<RowOf(f.cur), ColOf(f.cur)>> ELSE move
             /\ stack' = ReplaceTop(
                    [f EXCEPT !.max_score = IF better THEN s ELSE @,
                              !.pos = f.cur + 1])
    /\ pc' = "loop"
    /\ UNCHANGED <<driverVars, call, ret, g_node_count, live, paths>>

\* lines 274-275, 303: no cell is left
NmFinish ==
    /\ pc = "loop" /\ Top.kind = "nm"
    /\ NmCells(gs, Top.pos) = {}
    /\ ret' = Top.max_score
    /\ stack' = Pop
    /\ pc' = "ret"
    /\ paths' = paths \cup {"end"}
    /\ UNCHANGED <<driverVars, call, move, gs, g_node_count, live>>

(***************************************************************************)
(* The 8-argument heuristicNegamax (lines 45-90).                          *)
(***************************************************************************)
\* depth 0 not rejected
RejectedMut(depth) == depth < -1

\* line 47
Rejected(depth) == depth = 0 \/ depth < -1

\* lines 55-57
CountStones(b) == Cardinality(Occupied(b))

\* the first-move speedup left out
EffectiveDepthMut(b, depth) == depth

\* line 59
EffectiveDepth(b, depth) == IF CountStones(b) <= 2 THEN 6 ELSE depth

\* lines 64-65, 76-77
RootCall(player, depth) ==
    [kind |-> "hn", player |-> player, depth |-> depth,
     alpha |-> INT_MIN \div 2, beta |-> INT_MAX \div 2,
     root |-> TRUE]

\* lines 70, 80: the milliseconds std::clock measures for the iteration of
\* depth dd: a first iteration of inp.sched % 2 ms, each later one longer by
\* inp.sched \div 2 ms; the same for both calls of the caller
IterationMs(dd) == (inp.sched % 2) + ((dd - 4) \div 2) * (inp.sched \div 2)

\* the budget test reversed
StopIteratingMut(dd, elapsed, iteration, limit) ==
    dd >= kAvgMaximumDepth
        \/ elapsed + (iteration * kAvgBranchingFactor * 2) < limit

\* line 83
StopIterating(dd, elapsed, iteration, limit) ==
    dd >= kAvgMaximumDepth
        \/ elapsed + (iteration * kAvgBranchingFactor * 2) > limit

coreVars == <<move, gs, pc, call, ret, stack, g_node_count, live, paths>>

DriverReject ==
    /\ dpc = "start" /\ inp.entry = "find"
    /\ Rejected(inp.depth)
    /\ dpc' = "done"
    /\ UNCHANGED <<inp, run, res1, d, c_elapsed, actual_depth, searches,
                   rootScore, initial_depth, coreVars>>

\* lines 50-65
DriverFixed ==
    /\ dpc = "start" /\ inp.entry = "find"
    /\ ~Rejected(inp.depth)
    /\ LET depth == EffectiveDepth(inp.gs, inp.depth)
       IN  /\ depth > 0
           /\ actual_depth' = <<depth>>
           /\ initial_depth' = depth
           /\ searches' = Append(searches, depth)
           /\ call' = RootCall(inp.player, depth)
    /\ gs' = inp.gs
    /\ pc' = "call"
    /\ paths' = {}
    /\ dpc' = "fixed"
    /\ UNCHANGED <<inp, run, res1, d, c_elapsed, rootScore, move, ret, stack,
                   g_node_count, live>>

\* line 89, after the fixed-depth search
DriverFixedReturn ==
    /\ dpc = "fixed" /\ pc = "ret" /\ stack = <<>>
    /\ rootScore' = <<ret>>
    /\ pc' = "idle"
    /\ dpc' = "done"
    /\ UNCHANGED <<inp, run, res1, d, c_elapsed, actual_depth, searches,
                   initial_depth, move, gs, call, ret, stack, g_node_count,
                   live, paths>>

\* lines 50-59, 68-77: first iteration
DriverAutoStart ==
    /\ dpc = "start" /\ inp.entry = "find"
    /\ ~Rejected(inp.depth)
    /\ EffectiveDepth(inp.gs, inp.depth) <= 0
    /\ d' = 4
    /\ c_elapsed' = 0
    /\ initial_depth' = 4
    /\ searches' = Append(searches, 4)
    /\ call' = RootCall(inp.player, 4)
    /\ gs' = inp.gs
    /\ pc' = "call"
    /\ paths' = {}
    /\ dpc' = "auto"
    /\ UNCHANGED <<inp, run, res1, actual_depth, rootScore, move, ret, stack,
                   g_node_count, live>>

\* lines 80-86, 89: the iteration is over and the loop ends
DriverAutoStop ==
    /\ dpc = "auto" /\ pc = "ret" /\ stack = <<>>
    /\ LET c_iteration == IterationMs(d)
           elapsed == c_elapsed + c_iteration
       IN  /\ StopIterating(d, elapsed, c_iteration, time_limit)
           /\ c_elapsed' = elapsed
    /\ actual_depth' = <<d>>
    /\ rootScore' = <<ret>>
    /\ pc' = "idle"
    /\ dpc' = "done"
    /\ UNCHANGED <<inp, run, res1, d, searches, initial_depth, move, gs,
                   call, ret, stack, g_node_count, live, paths>>

\* lines 80-83, 69-77: the iteration is over and the next one starts
DriverAutoContinue ==
    /\ dpc = "auto" /\ pc = "ret" /\ stack = <<>>
    /\ LET c_iteration == IterationMs(d)
           elapsed == c_elapsed + c_iteration
       IN  /\ ~StopIterating(d, elapsed, c_iteration, time_limit)
           /\ c_elapsed' = elapsed
    /\ d' = d + 2
    /\ initial_depth' = d + 2
    /\ searches' = Append(searches, d + 2)
    /\ call' = RootCall(inp.player, d + 2)
    /\ rootScore' = <<ret>>
    /\ gs' = inp.gs
    /\ pc' = "call"
    /\ paths' = {}
    /\ UNCHANGED <<inp, run, res1, dpc, actual_depth, move, ret, stack,
                   g_node_count, live>>

(***************************************************************************)
(* The caller.                                                             *)
(***************************************************************************)
NmStart ==
    /\ dpc = "start" /\ inp.entry = "negamax"
    /\ gs' = inp.gs
    /\ initial_depth' = inp.depth
    /\ searches' = Append(searches, inp.depth)
    /\ call' = [kind |-> "nm", player |-> inp.player, depth |-> inp.depth,
                root |-> TRUE]
    /\ pc' = "call"
    /\ paths' = {}
    /\ dpc' = "nm"
    /\ UNCHANGED <<inp, run, res1, d, c_elapsed, actual_depth, rootScore,
                   move, ret, stack, g_node_count, live>>

NmReturn ==
    /\ dpc = "nm" /\ pc = "ret" /\ stack = <<>>
    /\ rootScore' = <<ret>>
    /\ pc' = "idle"
    /\ dpc' = "done"
    /\ UNCHANGED <<inp, run, res1, d, c_elapsed, actual_depth, searches,
                   initial_depth, move, gs, call, ret, stack, g_node_count,
                   live, paths>>

\* the second call, on the same position and with fresh output slots
CallerNextRun ==
    /\ dpc = "done" /\ inp.entry = "find" /\ run = 1
    /\ res1' = [move |-> move, actual_depth |-> actual_depth,
                searches |-> searches, rootScore |-> rootScore,
                paths |-> paths]
    /\ run' = 2
    /\ dpc' = "start"
    /\ d' = 0
    /\ c_elapsed' = 0
    /\ actual_depth' = <<>>
    /\ move' = NoMove
    /\ searches' = <<>>
    /\ rootScore' = <<>>
    /\ paths' = {}
    /\ UNCHANGED <<inp, initial_depth, gs, pc, call, ret, stack,
                   g_node_count, live>>

(***************************************************************************)
(* The positions and arguments the caller draws from.                      *)
(***************************************************************************)
EmptyBoard == [i \in Cells |-> 0]
\* the first e cells empty, the others filled in a checkerboard
Dense(e) == [i \in Cells |-> IF i < e THEN 0
                             ELSE 1 + ((RowOf(i) + ColOf(i)) % 2)]
\* three stones in a corner
Sparse == [i \in Cells |-> IF i = 0 \/ i = g_board_size THEN 1
                           ELSE IF i = 1 THEN 2 ELSE 0]
OneStone == [i \in Cells |-> IF i = 0 THEN 1 ELSE 0]

TimeLimits == {-1} \cup {12 * k : k \in 0 .. MaxTimeK}

Arguments(entry, boards, depths, seeds, limits, scheds) ==
    {[entry |-> entry, gs |-> b, player |-> p, depth |-> dep, seed |-> s,
      ab |-> <<FALSE, TRUE>>, tl |-> tl, sched |-> sc] :
        b \in boards, p \in {1, 2}, dep \in depths, s \in seeds,
        tl \in limits, sc \in scheds}

Inputs ==
    Arguments("find", {Dense(e) : e \in 0 .. MaxEmpty},
              {-2, 0} \cup (1 .. MaxDepth), 0 .. MaxSeed, {<<0, 0>>}, {0})
    \cup Arguments("find", {Sparse}, 1 .. MaxSparseDepth, 0 .. MaxSeed,
                   {<<0, 0>>}, {0})
    \cup Arguments("find", {EmptyBoard}, {-1, 4}, 0 .. MaxSeed,
                   {<<0, 0>>}, {0})
    \cup Arguments("find", {Dense(e) : e \in 0 .. MaxAutoEmpty}, {-1}, {0},
                   {tl \in TimeLimits \X TimeLimits : tl[1] < tl[2]},
                   0 .. MaxSched)
    \cup Arguments("negamax",
                   {Dense(e) : e \in 0 .. MaxEmpty}
                       \cup {Sparse, OneStone, EmptyBoard},
                   0 .. MaxNmDepth, {0}, {<<0, 0>>}, {0})

Init ==
    /\ inp \in Inputs
    /\ run = 1
    /\ res1 = <<>>
    /\ dpc = "start"
    /\ d = 0
    /\ c_elapsed = 0
    /\ actual_depth = <<>>
    /\ move = NoMove
    /\ searches = <<>>
    /\ rootScore = <<>>
    /\ initial_depth = 0
    /\ gs = inp.gs
    /\ pc = "idle"
    /\ call = NoCall
    /\ ret = 0
    /\ stack = <<>>
    /\ g_node_count = 0
    /\ live = 0
    /\ paths = {}

Next ==
    \/ DriverReject
    \/ DriverFixed
    \/ DriverFixedReturn
    \/ DriverAutoStart
    \/ DriverAutoStop
    \/ DriverAutoContinue
    \/ CoreLeaf
    \/ CoreNoMoves
    \/ CoreShortcut
    \/ CoreExpand
    \/ CorePlace
    \/ CoreAfterReturn
    \/ CoreFinish
    \/ NmStart
    \/ NmLeaf
    \/ NmExpand
    \/ NmPlace
    \/ NmAfterReturn
    \/ NmFinish
    \/ NmReturn
    \/ CallerNextRun

Spec == Init /\ [][Next]_vars

(***************************************************************************)
(* Properties.                                                             *)
(***************************************************************************)

\* C1: board restoration.  At every moment the board is the board given to
\* the search plus exactly the stones of the moves that are being searched
\* (one per node whose child call is in progress), each of them on a cell
\* that was empty; so whenever a node returns, and in particular when the
\* top-level heuristicNegamax or negamax returns, the board is what it was
\* before the call.
BoardRestored ==
    LET held == {k \in 1 .. Len(stack) :
                    k < Len(stack) \/ pc \in {"call", "ret"}}
        cell(k) == IF stack[k].kind = "hn"
                   THEN Idx(stack[k].cand[stack[k].i].r,
                            stack[k].cand[stack[k].i].c)
                   ELSE stack[k].cur
    IN  /\ \A k \in held : inp.gs[cell(k)] = 0
        /\ \A j, k \in held : j # k => cell(j) # cell(k)
        /\ gs = [i \in Cells |->
                    IF \E k \in held : cell(k) = i
                    THEN stack[CHOOSE k \in held : cell(k) = i].player
                    ELSE inp.gs[i]]
        /\ (pc = "ret" /\ stack = <<>>) => gs = inp.gs

\* a fixed-depth heuristic search has returned after nodes left through the
\* leaf, the shortcut, the alpha-beta break and the normal loop end
BoardRestoredWitness ==
    /\ dpc = "fixed" /\ pc = "ret" /\ stack = <<>>
    /\ {"leaf", "shortcut", "break", "end"} \subseteq paths
    /\ gs = inp.gs

\* C2: pruning equivalence.  The search from the root with pruning (second
\* call) returns the score and writes the move of the search without
\* pruning (first call).
PruningEquivalence ==
    (inp.entry = "find" /\ inp.depth > 0 /\ run = 2 /\ dpc = "done")
        => (move = res1.move /\ rootScore = res1.rootScore)

\* C3: when the root node (the node with move outputs) of a search of depth
\* > 0 returns: without candidates the score is 0 and no move was written;
\* with candidates a move was written, on a cell of the searched board that
\* is empty and not remote.
MoveWrittenIffCandidates ==
    (dpc \in {"fixed", "auto"} /\ pc = "ret" /\ stack = <<>>)
        => IF Len(searchMovesOrdered(inp.gs, inp.player)) = 0
           THEN ret = 0 /\ move = NoMove
           ELSE /\ move # NoMove
                /\ move[1] \in 0 .. (g_board_size - 1)
                /\ move[2] \in 0 .. (g_board_size - 1)
                /\ inp.gs[Idx(move[1], move[2])] = 0
                /\ ~remoteCell(inp.gs, move[1], move[2])

\* the root returned a move taken from the opponent's list by the override
MoveWrittenWitness ==
    /\ dpc = "fixed" /\ pc = "ret" /\ stack = <<>>
    /\ "override" \in paths
    /\ move # NoMove

\* C4: a node of depth > 0 whose player has exactly one candidate, or whose
\* top-ranked candidate has heuristic_val >= the winning score, returns that
\* candidate's heuristic_val, writes its cell if it has move outputs, places
\* no stone, makes no call, and counts one node.
ShortcutReturnsTopCandidate ==
    [][(pc = "call" /\ call.kind = "hn" /\ call.depth > 0)
          => LET mp == searchMovesOrdered(gs, call.player)
             IN  (Len(mp) = 1 \/ (Len(mp) > 1 /\ mp[1].heuristic_val
                                       >= kRenjuAiEvalWinningScore))
                   => /\ \A k \in 1 .. Len(mp) :
                             mp[1].heuristic_val >= mp[k].heuristic_val
                      /\ ret' = mp[1].heuristic_val
                      /\ pc' = "ret"
                      /\ gs' = gs
                      /\ stack' = stack
                      /\ g_node_count' = g_node_count + 1
                      /\ call.root => move' = <<mp[1].r, mp[1].c>>]_vars

\* a node below the root has returned a winning heuristic value
ShortcutWitness ==
    /\ pc = "ret" /\ stack # <<>> /\ Top.kind = "hn"
    /\ "shortcut" \in paths
    /\ ret >= kRenjuAiEvalWinningScore

\* C5, as stated: every depth > 0 runs one search at that depth and reports
\* it; every depth <= 0 runs at least one search and produces a move and an
\* actual depth.
ModeSelectionAsStated ==
    (inp.entry = "find" /\ dpc = "done")
        => /\ inp.depth > 0
                => searches = <<inp.depth>> /\ actual_depth = <<inp.depth>>
           /\ inp.depth <= 0
                => Len(searches) >= 1 /\ move # NoMove /\ actual_depth # <<>>

\* C5, amended: depth 0 and depth < -1 return at once (no search, nothing
\* written); otherwise a board with at most 2 stones runs one search at depth
\* 6 and reports 6; otherwise depth > 0 runs one search at that depth and
\* reports it, and depth -1 iterates from depth 4 and reports the last depth
\* searched; a move is written exactly when the player has a candidate.
ModeSelection ==
    (inp.entry = "find" /\ dpc = "done")
        => LET cnt == Cardinality({i \in Cells : inp.gs[i] # 0})
               off == inp.depth = 0 \/ inp.depth < -1
           IN  /\ off => searches = <<>> /\ actual_depth = <<>>
                           /\ move = NoMove
               /\ (~off /\ cnt <= 2)
                    => searches = <<6>> /\ actual_depth = <<6>>
               /\ (cnt > 2 /\ inp.depth > 0)
                    => searches = <<inp.depth>>
                         /\ actual_depth = <<inp.depth>>
               /\ (cnt > 2 /\ inp.depth = -1)
                    => /\ Len(searches) >= 1
                       /\ searches[1] = 4
                       /\ actual_depth = <<searches[Len(searches)]>>
               /\ ~off => (move # NoMove
                             <=> searchMovesOrdered(inp.gs, inp.player) # <<>>)

\* an iterative-deepening call that ran several searches and wrote a move
ModeSelectionWitness ==
    /\ inp.entry = "find" /\ dpc = "done"
    /\ inp.depth = -1 /\ CountStones(inp.gs) > 2
    /\ Len(searches) >= 2
    /\ move # NoMove

\* C6, as stated: on the empty board with depth 4 the call writes a cell
\* inside the generator's expanded extent.
EmptyBoardMoveAsStated ==
    (inp.entry = "find" /\ dpc = "done" /\ inp.gs = EmptyBoard
        /\ inp.depth = 4)
        => /\ move # NoMove
           /\ move[1] \in 0 .. (g_board_size - 1)
           /\ move[2] \in 0 .. (g_board_size - 1)

\* C6, amended: on the empty board with depth 4 the call runs one search, at
\* depth 6, which finds no candidate: it returns 0, no cell is written, and
\* the actual depth reported is 6.
EmptyBoardNoMove ==
    (inp.entry = "find" /\ dpc = "done" /\ inp.gs = EmptyBoard
        /\ inp.depth = 4)
        => /\ move = NoMove
           /\ searches = <<6>>
           /\ actual_depth = <<6>>
           /\ rootScore = <<0>>
           /\ "zero" \in paths

EmptyBoardWitness ==
    /\ inp.entry = "find" /\ dpc = "done" /\ inp.gs = EmptyBoard
    /\ inp.depth = 4
    /\ g_node_count >= 1
    /\ rootScore = <<0>>

\* C7: in iterative deepening on a board with more than 2 stones the depths
\* searched are 4, 6, 8, ... in order, depth 4 is always searched, no depth
\* above 16 is, the depth reported is the last one searched, and of two
\* calls with the same iteration times the one with the larger time limit
\* does not report a smaller depth.
TimeBudgetMonotone ==
    (inp.entry = "find" /\ inp.depth = -1 /\ CountStones(inp.gs) > 2)
        => /\ \A k \in 1 .. Len(searches) : searches[k] = 2 * k + 2
           /\ d <= kAvgMaximumDepth
           /\ dpc = "done"
                => /\ Len(searches) >= 1
                   /\ actual_depth = <<searches[Len(searches)]>>
                   /\ (run = 2 /\ inp.tl[1] <= inp.tl[2])
                        => res1.actual_depth[1] <= actual_depth[1]

\* the call with the larger limit searched deeper, and neither stopped at
\* the first or at the last possible depth
TimeBudgetWitness ==
    /\ inp.entry = "find" /\ inp.depth = -1 /\ CountStones(inp.gs) > 2
    /\ run = 2 /\ dpc = "done"
    /\ inp.tl[1] < inp.tl[2]
    /\ 4 < res1.actual_depth[1]
    /\ res1.actual_depth[1] < actual_depth[1]
    /\ actual_depth[1] < kAvgMaximumDepth

\* C8, as stated: a node uses the wider breadth exactly when its depth is
\* initial_depth or initial_depth - 1, whatever the parity of initial_depth,
\* and so searches at most 2 + 12 candidates there and 2 + 6 elsewhere.
BreadthAtFirstPlies ==
    \A k \in 1 .. Len(stack) :
        stack[k].kind = "hn"
            => LET wide == stack[k].depth \in {initial_depth,
                                               initial_depth - 1}
                   bound == IF wide THEN kTopLayerSearchBreadth
                            ELSE kSearchBreadth
               IN  /\ stack[k].breadth = bound
                   /\ Len(stack[k].cand) <= 2 + bound

\* C9, as stated: the lists of a node are released before it returns, so
\* the live lists are those of the nodes still running (three each), and
\* none is live when the top-level search has returned.
ListsReleased ==
    inp.entry = "find" => live = 3 * Len(stack)

\* C10: when a node's candidate loop is over.  The best score is the
\* maximum actual_score of the candidates searched.  The override test is
\* evaluated only at the root, when the opponent's top candidate met the
\* threatening score and the best score is negative; then b <= best, where
\* b is the actual_score of the first blocking candidate, and if moreover
\* (best - b) / |b| < 0.2 the node returns b and writes that candidate's
\* cell.  Otherwise the node returns the best score and the cell written is
\* the first candidate, in search order, that attains it.
BlockingOverride ==
    [][(pc = "loop" /\ Top.kind = "hn"
            /\ (Top.broke \/ Top.i > Len(Top.cand)))
          => LET f == Top
                 n == IF f.broke THEN f.i ELSE Len(f.cand)
                 score(k) == f.cand[k].actual_score[1]
                 best == CHOOSE v \in {score(k) : k \in 1 .. n} :
                             \A k \in 1 .. n : v >= score(k)
                 first == CHOOSE k \in 1 .. n :
                              /\ score(k) = best
                              /\ \A j \in 1 .. (k - 1) : score(j) < best
                 mo == searchMovesOrdered(gs, Other(f.player))
                 threat == mo[1].heuristic_val
                               >= kRenjuAiEvalThreateningScore
                 tested == f.depth = initial_depth /\ threat /\ best < 0
                 b == score(1)
                 over == tested /\ 5 * (best - (IF b = 0 THEN 1 ELSE b))
                                       < Abs(IF b = 0 THEN 1 ELSE b)
             IN  /\ f.max_score = best
                 /\ threat => (f.cand[1].r = mo[1].r /\ f.cand[1].c = mo[1].c)
                 /\ tested => b <= best
                 /\ over => /\ ret' = b
                            /\ f.root => move' = <<f.cand[1].r, f.cand[1].c>>
                 /\ ~over => /\ ret' = best
                             /\ f.root => move' = <<f.cand[first].r,
                                                    f.cand[first].c>>]_vars

\* the root has returned the blocking move's score, which is not the best
BlockingOverrideWitness ==
    /\ pc = "ret" /\ stack = <<>> /\ dpc = "fixed"
    /\ "override" \in paths
    /\ ret < 0

====
